---- MODULE Spec2Model ----
(***************************************************************************)
(* A model of the soslines rendering engine (src/soslines.py): the Canvas  *)
(* with its coverage mask (self.canvas) and RGBA buffer (self.rgba), the   *)
(* compositor transfer_canvas_to_rgba and the drawing primitives.          *)
(*                                                                         *)
(* Numbers.  Angles are integers in hundredths of a degree.  Python floats *)
(* in [-1,1] (sines, cosines, unit-vector components) are fixed-point      *)
(* integers scaled by Scale.  np.sin/np.cos are a half-degree table with   *)
(* linear interpolation in between, np.sqrt and np.arctan2 are computed to *)
(* the nearest unit.  A NaN vector or NaN point is the empty tuple <<>>.   *)
(* Bytes of the RGBA buffer are exact; the compositor's double arithmetic  *)
(* is exact rational arithmetic followed by the uint8 cast (truncation),   *)
(* with the (alpha, alpha) pairs listed in AlphaUlpShort where the double  *)
(* product falls one ulp below an exact integer, and likewise for the      *)
(* colour channels (WeightsUlpShort) under the colours drawn with here.    *)
(***************************************************************************)
EXTENDS Integers, Sequences, FiniteSets, TLC

VARIABLES
    xyz,      \* self.xyz: [shape |-> height, at |-> [Pix -> unit vector]]
    canvas,   \* self.canvas: [Pix -> 0..1], the coverage mask
    rgba,     \* self.rgba: [Pix -> <<R, G, B, A>>], bytes
    pc,       \* "idle", or "line" while a line() call runs its loop; the
              \* step reached ("disk_simple", "disk", "compared") in SpecDisk
    ln,       \* the locals of the running line() call
    last,     \* history: the call made last and how it ended
    prev,     \* history: canvas and rgba when the last call began
    cover,    \* history: the pixels each accumulate of the last call selected
    count,    \* history: accumulates that covered a pixel since the last flush
    calls,    \* history: number of calls made
    probe     \* inputs and results of the pure-function specifications

vars == <<xyz, canvas, rgba, pc, ln, last, prev, cover, count, calls, probe>>

---------------------------------------------------------------------------
(* Fixed-point arithmetic *)

Scale == 100 * 100

Deg(x) == 100 * x

Abs(x) == IF x < 0 THEN -x ELSE x

Max2(a, b) == IF a >= b THEN a ELSE b

Min2(a, b) == IF a <= b THEN a ELSE b

\* n / d to the nearest integer, halves away from zero (d > 0)
RoundDiv(n, d) == IF n >= 0 THEN (2 * n + d) \div (2 * d)
                  ELSE -((2 * (-n) + d) \div (2 * d))

\* round(Scale * sin(k / 2 degrees)), k = 0..181, at index k + 1
SinTab == <<
    0, 87, 175, 262, 349, 436, 523, 610, 698, 785, 872, 958, 1045, 1132,
    1219, 1305, 1392, 1478, 1564, 1650, 1736, 1822, 1908, 1994, 2079, 2164,
    2250, 2334, 2419, 2504, 2588, 2672, 2756, 2840, 2924, 3007, 3090, 3173,
    3256, 3338, 3420, 3502, 3584, 3665, 3746, 3827, 3907, 3987, 4067, 4147,
    4226, 4305, 4384, 4462, 4540, 4617, 4695, 4772, 4848, 4924, 5000, 5075,
    5150, 5225, 5299, 5373, 5446, 5519, 5592, 5664, 5736, 5807, 5878, 5948,
    6018, 6088, 6157, 6225, 6293, 6361, 6428, 6494, 6561, 6626, 6691, 6756,
    6820, 6884, 6947, 7009, 7071, 7133, 7193, 7254, 7314, 7373, 7431, 7490,
    7547, 7604, 7660, 7716, 7771, 7826, 7880, 7934, 7986, 8039, 8090, 8141,
    8192, 8241, 8290, 8339, 8387, 8434, 8480, 8526, 8572, 8616, 8660, 8704,
    8746, 8788, 8829, 8870, 8910, 8949, 8988, 9026, 9063, 9100, 9135, 9171,
    9205, 9239, 9272, 9304, 9336, 9367, 9397, 9426, 9455, 9483, 9511, 9537,
    9563, 9588, 9613, 9636, 9659, 9681, 9703, 9724, 9744, 9763, 9781, 9799,
    9816, 9833, 9848, 9863, 9877, 9890, 9903, 9914, 9925, 9936, 9945, 9954,
    9962, 9969, 9976, 9981, 9986, 9990, 9994, 9997, 9998, 10000, 10000,
    10000 >>

\* linear interpolation in a table of half-degree steps
Interp(tab, k, f) == tab[k + 1] + RoundDiv((tab[k + 2] - tab[k + 1]) * f, 50)

\* sin of a first-quadrant angle, 0 <= a <= Deg(90)
SinQ(a) == Interp(SinTab, a \div 50, a % 50)

\* an angle of 0..Deg(180) folded into the first quadrant
Fold(b) == IF b <= Deg(90) THEN b ELSE Deg(180) - b

\* np.sin(a * np.pi / 180)
Sin(a) == (IF a % Deg(360) < Deg(180) THEN 1 ELSE -1) * SinQ(Fold(a % Deg(180)))

\* np.cos(a * np.pi / 180)
Cos(a) == Sin(a + Deg(90))

RECURSIVE SqrtIter(_, _, _)
SqrtIter(n, lo, hi) ==
    IF lo >= hi THEN lo
    ELSE LET mid == (lo + hi + 1) \div 2
         IN  IF mid * mid <= n THEN SqrtIter(n, mid, hi)
             ELSE SqrtIter(n, lo, mid - 1)

NearestRoot(n, r) == IF n - r * r > r THEN r + 1 ELSE r

\* np.sqrt, to the nearest integer
Sqrt(n) == NearestRoot(n, SqrtIter(n, 0, 46339))

\* y*cos(t) - x*sin(t) at table index k: positive while t is below atan2(y, x)
AtanF(y, x, k) == y * SinTab[181 - k] - x * SinTab[k + 1]

RECURSIVE AtanIter(_, _, _, _)
AtanIter(y, x, lo, hi) ==
    IF lo >= hi THEN lo
    ELSE LET mid == (lo + hi + 1) \div 2
         IN  IF AtanF(y, x, mid) >= 0 THEN AtanIter(y, x, mid, hi)
             ELSE AtanIter(y, x, lo, mid - 1)

AtanFrac(f0, f1) == RoundDiv(50 * f0, f0 - f1)

AtanAt(y, x, k) ==
    IF k = 180 THEN Deg(90)
    ELSE 50 * k + AtanFrac(AtanF(y, x, k), AtanF(y, x, k + 1))

\* arctan2 of a first-quadrant pair (x >= 0, y >= 0), in 0..Deg(90)
AtanQ(y, x) == AtanAt(y, x, AtanIter(y, x, 0, 180))

Quadrant(y, x, t) ==
    IF x = 0 /\ y = 0 THEN 0
    ELSE IF y >= 0 THEN (IF x >= 0 THEN t ELSE Deg(180) - t)
    ELSE (IF x >= 0 THEN -t ELSE t - Deg(180))

\* np.arctan2(y, x) * 180 / np.pi
Atan2(y, x) == Quadrant(y, x, AtanQ(Abs(y), Abs(x)))

---------------------------------------------------------------------------
(* Vectors: <<x, y, z>> scaled by Scale; NaN is <<>> *)

NaN == <<>>

IsNaN(v) == v = <<>>

Dot(a, b) == a[1] * b[1] + a[2] * b[2] + a[3] * b[3]

\* np.cross of two vectors, rescaled to Scale
Cross(a, b) ==
    IF IsNaN(a) \/ IsNaN(b) THEN NaN
    ELSE << RoundDiv(a[2] * b[3] - a[3] * b[2], Scale),
            RoundDiv(a[3] * b[1] - a[1] * b[3], Scale),
            RoundDiv(a[1] * b[2] - a[2] * b[1], Scale) >>

\* np.sqrt(np.sum(v**2))
Norm(v) == Sqrt(Dot(v, v))

Unit(v, n) ==
    IF n = 0 THEN NaN
    ELSE << RoundDiv(v[1] * Scale, n), RoundDiv(v[2] * Scale, n),
            RoundDiv(v[3] * Scale, n) >>

\* v / np.sqrt(np.sum(v**2)): numpy divides 0 by 0 into NaN with a warning
Normalize(v) == IF IsNaN(v) THEN NaN ELSE Unit(v, Norm(v))

---------------------------------------------------------------------------
(* Projection utilities *)

row2lat(height, row) == Deg(90) - (Deg(180) * (2 * row + 1)) \div (2 * height)

lat2row(height, lat) == ((Deg(90) - lat) * height) \div Deg(180)

col2lon(height, col) == (Deg(180) * (2 * col + 1)) \div (2 * height) - Deg(180)

lon2col(height, lon) == ((lon + Deg(180)) * height) \div Deg(180)

SphereVec(cos_lat, sin_lat, cos_lon, sin_lon) ==
    << RoundDiv(cos_lat * cos_lon, Scale), RoundDiv(cos_lat * sin_lon, Scale),
       sin_lat >>

latlon2vec(lat, lon) == SphereVec(Cos(lat), Sin(lat), Cos(lon), Sin(lon))

XyRadius(vec) == Sqrt(vec[1] * vec[1] + vec[2] * vec[2])

\* a point is <<lat, lon>>, or NaN
vec2latlon(vec) ==
    IF IsNaN(vec) THEN NaN
    ELSE << Atan2(vec[3], XyRadius(vec)), Atan2(vec[2], vec[1]) >>

---------------------------------------------------------------------------
(* The canvas: pixel grid, direction table, mask and RGBA buffer *)

\* height of the main specification's canvas (Canvas(height=...))
Height == 6

\* largest value of a uint8 channel
MaxByte == 255

Rows(height) == 0 .. (height - 1)

Cols(height) == 0 .. (2 * height - 1)

Pix(height) == Rows(height) \X Cols(height)

\* the direction table __init__ builds: self.xyz[row, col, :] is the unit
\* vector of the centre of pixel <<row, col>>
DirectionTable(height) ==
    [ shape |-> height,
      at |-> [p \in Pix(height) |->
                 latlon2vec(row2lat(height, p[1]), col2lon(height, p[2]))] ]

\* np.zeros((height, width))
ZeroMask(height) == [p \in Pix(height) |-> 0]

\* np.zeros((height, width, 4), dtype='uint8')
BlankRgba(height) == [p \in Pix(height) |-> <<0, 0, 0, 0>>]

MaskIsZero(cv) == \A p \in DOMAIN cv : cv[p] = 0

---------------------------------------------------------------------------
(* Compositor: transfer_canvas_to_rgba *)

\* (colour alpha, existing alpha) with mask 1 for which the double product
\* alpha_over * 255.0 lies one ulp below the integer it equals exactly
AlphaUlpShort ==
    { <<10, 153>>, <<17, 30>>, <<30, 17>>, <<30, 68>>, <<34, 75>>,
      <<34, 150>>, <<34, 225>>, <<36, 170>>, <<60, 136>>, <<60, 221>>,
      <<68, 30>>, <<68, 240>>, <<75, 68>>, <<75, 153>>, <<75, 221>>,
      <<81, 170>>, <<85, 96>>, <<85, 192>>, <<90, 119>>, <<90, 221>>,
      <<90, 238>>, <<105, 17>>, <<105, 102>>, <<120, 204>>, <<125, 204>>,
      <<129, 170>>, <<130, 102>>, <<130, 204>>, <<136, 60>>, <<136, 165>>,
      <<153, 30>>, <<153, 70>>, <<153, 110>>, <<153, 150>>, <<153, 190>>,
      <<153, 230>>, <<170, 6>>, <<170, 9>>, <<170, 30>>, <<170, 33>>,
      <<170, 54>>, <<170, 78>>, <<170, 81>>, <<170, 126>>, <<170, 174>>,
      <<180, 221>>, <<200, 204>>, <<210, 17>>, <<210, 102>>, <<250, 102>> }

\* alpha_over * 255 * 255, with alpha = m * ca / 255 and existing alpha a
AlphaOver(m, ca, a) == m * ca * MaxByte + (MaxByte - m * ca) * a

\* the alpha byte if the cast rounded to nearest instead of truncating
BlendAlphaRounded(m, ca, a) ==
    (2 * AlphaOver(m, ca, a) + MaxByte) \div (2 * MaxByte)

\* (alpha_over * 255.0).astype('uint8')
BlendAlpha(m, ca, a) ==
    AlphaOver(m, ca, a) \div MaxByte
        - (IF m = 1 /\ <<ca, a>> \in AlphaUlpShort THEN 1 ELSE 0)

\* existing alpha a for which, under colour alpha 128 and mask 1, the doubles
\* alpha_top + alpha_bottom fall one ulp short of 1: a channel at 255 drawn
\* over 255 then comes to 254.99... and is cast to 254
WeightsUlpShort ==
    { 1, 4, 7, 14, 23, 29, 30, 33, 40, 46, 49, 65, 80, 81, 85, 98, 100, 109,
      130, 134, 135, 136, 137, 138, 150, 155, 161, 162, 163, 168, 169, 170,
      180, 187, 188, 191, 199, 200, 202, 211, 212, 227 }

\* the double alpha_top * color[i] + alpha_bottom * rgba[i] is one ulp below
\* the integer it equals exactly.  For colour channels 0 and 255 and colour
\* alpha 128 or 255 (the colours drawn with here) these are all the cases.
ChannelUlpShort(m, ca, a, c, e) ==
    m = 1 /\ ca = 128 /\ c = MaxByte /\ e = MaxByte /\ a \in WeightsUlpShort

\* the channel if alpha_top and alpha_bottom were not divided by alpha_over
WeightedUnnormalised(m, ca, a, c, e, over) ==
    (m * ca * MaxByte * c + (MaxByte - m * ca) * a * e)
        \div (MaxByte * MaxByte)

\* alpha_top * color[i] + alpha_bottom * rgba[i] given alpha_over (over),
\* cast to uint8; both weights are 0 where alpha_over is 0
Weighted(m, ca, a, c, e, over) ==
    IF over > 0
    THEN (m * ca * MaxByte * c + (MaxByte - m * ca) * a * e) \div over
             - (IF ChannelUlpShort(m, ca, a, c, e) THEN 1 ELSE 0)
    ELSE 0

BlendChannel(m, ca, a, c, e) == Weighted(m, ca, a, c, e, AlphaOver(m, ca, a))

TransferPixel(m, color, px) ==
    << BlendChannel(m, color[4], px[4], color[1], px[1]),
       BlendChannel(m, color[4], px[4], color[2], px[2]),
       BlendChannel(m, color[4], px[4], color[3], px[3]),
       BlendAlpha(m, color[4], px[4]) >>

\* a flush that leaves the mask as it is
KeepMask(cv) == cv

\* the mask after a flush: self.canvas[:,:] = 0
ClearMask(cv) == [p \in DOMAIN cv |-> 0]

transfer_canvas_to_rgba(cv, img, color) ==
    [ canvas |-> ClearMask(cv),
      rgba   |-> [p \in DOMAIN img |-> TransferPixel(cv[p], color, img[p])] ]

---------------------------------------------------------------------------
(* Rasterizer: pixel selection *)

\* 0.5 * x for an angle x
Half(x) == IF x >= 0 THEN x \div 2 ELSE -((-x) \div 2)

ScaledBy(w, cos_lat) ==
    IF cos_lat > 0 THEN RoundDiv(w * Scale, 2 * cos_lat)
    ELSE IF cos_lat < 0 THEN -RoundDiv(w * Scale, 2 * (-cos_lat))
    ELSE IF w > 0 THEN Deg(3600)
    ELSE IF w < 0 THEN -Deg(3600)
    ELSE 0

\* 0.5 * w * scale with scale = 1 / np.cos(lat * np.pi / 180); the double
\* cosine of +-90 degrees is 6e-17, so the product is out of every range
HalfScaled(w, lat) == ScaledBy(w, Cos(lat))

\* self.canvas[row, g] = 1.0 on the selected pixels
MarkSelected(cv, sel) == [p \in DOMAIN cv |-> IF p \in sel THEN 1 ELSE cv[p]]

\* the pixels of the whole grid whose dot product with center is above
\* dot_limit
DotAbove(grid, center, dot_limit) ==
    {p \in DOMAIN grid.at : Dot(grid.at[p], center) > dot_limit * Scale}

DiskSimpleSel(grid, lat, lon, diameter) ==
    DotAbove(grid, latlon2vec(lat, lon), Cos(Half(diameter)))

DotBetween(grid, center, dot_limit0, dot_limit1) ==
    {p \in DOMAIN grid.at :
        /\ Dot(grid.at[p], center) < dot_limit0 * Scale
        /\ Dot(grid.at[p], center) > dot_limit1 * Scale}

CircleSimpleSel(grid, lat, lon, diameter, line_width) ==
    DotBetween(grid, latlon2vec(lat, lon),
               Cos(Half(diameter) - Half(line_width)),
               Cos(Half(diameter) + Half(line_width)))

\* the locals of line_simple and line_segment_internal: the plane normal,
\* the two along-arc directions, sin(line_width / 2)
Frame(vec_a, vec_b, orth, line_width) ==
    [ orth |-> orth, along_a |-> Cross(orth, vec_a),
      along_b |-> Cross(orth, vec_b),
      dot_limit_width |-> Sin(Half(line_width)) ]

LineFrame(vec_a, vec_b, line_width) ==
    Frame(vec_a, vec_b, Normalize(Cross(vec_a, vec_b)), line_width)

\* (np.abs(dots1) < dot_limit_width) * (dots2 > 0) * (dots3 < 0);
\* every comparison with NaN is False
InStrip(v, fr) ==
    /\ ~IsNaN(fr.orth)
    /\ Abs(Dot(v, fr.orth)) < fr.dot_limit_width * Scale
    /\ Dot(v, fr.along_a) > 0
    /\ Dot(v, fr.along_b) < 0

StripSel(grid, fr) == {p \in DOMAIN grid.at : InStrip(grid.at[p], fr)}

LineSimpleSel(grid, lat_a, lon_a, lat_b, lon_b, line_width) ==
    StripSel(grid, LineFrame(latlon2vec(lat_a, lon_a),
                             latlon2vec(lat_b, lon_b), line_width))

\* a rectangle of rows r0..r1-1 and columns c0..c1-1
InRect(p, rect) ==
    /\ rect.r0 <= p[1] /\ p[1] < rect.r1
    /\ rect.c0 <= p[2] /\ p[2] < rect.c1

\* np.zeros((r1-r0, c1-c0)) raises ValueError on a negative dimension
RectFails(rect) == rect.r1 - rect.r0 < 0 \/ rect.c1 - rect.c0 < 0

ClampRect(height, min_lat, max_lat, min_lon, max_lon) ==
    [ r0 |-> Max2(lat2row(height, max_lat) - 1, 0),
      r1 |-> Min2(lat2row(height, min_lat) + 2, height),
      c0 |-> Max2(lon2col(height, min_lon) - 1, 0),
      c1 |-> Min2(lon2col(height, max_lon) + 2, 2 * height) ]

DiskBox(height, lat, lon, half, half_lon) ==
    ClampRect(height, lat - half, lat + half, lon - half_lon, lon + half_lon)

DiskRect(height, lat, lon, diameter) ==
    DiskBox(height, lat, lon, Half(diameter), HalfScaled(diameter, lat))

DotAboveIn(grid, rect, center, dot_limit) ==
    {p \in DOMAIN grid.at :
        InRect(p, rect) /\ Dot(grid.at[p], center) > dot_limit * Scale}

DiskSel(grid, lat, lon, diameter) ==
    DotAboveIn(grid, DiskRect(grid.shape, lat, lon, diameter),
               latlon2vec(lat, lon), Cos(Half(diameter)))

\* accumulation by sum instead of maximum
AddIntoRect(cv, rect, sel) ==
    [p \in DOMAIN cv |->
        IF InRect(p, rect) THEN cv[p] + (IF p \in sel THEN 1 ELSE 0)
        ELSE cv[p]]

\* self.canvas[r0:r1,c0:c1] = np.maximum(self.canvas[r0:r1,c0:c1], canvas)
MaxIntoRect(cv, rect, sel) ==
    [p \in DOMAIN cv |->
        IF InRect(p, rect) THEN Max2(cv[p], IF p \in sel THEN 1 ELSE 0)
        ELSE cv[p]]

\* 0.5 * x + 0.5 * 255 stored into a uint8
HalfBlend(x) == (x + MaxByte) \div 2

HalfBlendPixel(px) == <<HalfBlend(px[1]), px[2], px[3], HalfBlend(px[4])>>

\* self.rgba[r0:r1,c0:c1,0] and [...,3] = 0.5 * self.rgba[...] + 0.5 * 255
Blend5050(img, rect) ==
    [p \in DOMAIN img |-> IF InRect(p, rect) THEN HalfBlendPixel(img[p])
                          ELSE img[p]]

\* the clamps of line_segment_internal: "Yeah, it's a hack." near the poles
\* and "For wide lines that go over the lon=180 border"
SegmentBox(height, min_lat, max_lat, min_lon, max_lon, hw) ==
    LET polar == max_lat > Deg(85) \/ min_lat < -Deg(85)
        wide == \/ (IF polar THEN Deg(180) ELSE max_lon) > Deg(180) - hw
                \/ (IF polar THEN -Deg(180) ELSE min_lon) < -Deg(180) + hw
    IN  ClampRect(height,
                  IF min_lat < -Deg(85) THEN -Deg(90) ELSE min_lat,
                  IF max_lat > Deg(85) THEN Deg(90) ELSE max_lat,
                  IF polar \/ wide THEN -Deg(180) ELSE min_lon,
                  IF polar \/ wide THEN Deg(180) ELSE max_lon)

SegmentSpan(height, lat_a, lon_a, lat_b, lon_b, line_width, hw) ==
    SegmentBox(height, Min2(lat_a, lat_b) - Half(line_width),
               Max2(lat_a, lat_b) + Half(line_width),
               Min2(lon_a, lon_b) - hw, Max2(lon_a, lon_b) + hw, hw)

\* the row/column rectangle of line_segment_internal (numbers, not NaN)
SegmentRect(height, lat_a, lon_a, lat_b, lon_b, line_width) ==
    SegmentSpan(height, lat_a, lon_a, lat_b, lon_b, line_width,
                HalfScaled(line_width, Max2(Abs(lat_a), Abs(lat_b))))

\* dots**2 + dots**2 of two dot products
Dist2(d1, d2) ==
    RoundDiv(d1, Scale) * RoundDiv(d1, Scale)
        + RoundDiv(d2, Scale) * RoundDiv(d2, Scale)

\* the strip and the two end disks of line_segment_internal on one pixel
InSegment(v, fr) ==
    /\ ~IsNaN(fr.orth)
    /\ \/ InStrip(v, fr)
       \/ Dist2(Dot(v, fr.orth), Dot(v, fr.along_a))
              < fr.dot_limit_width * fr.dot_limit_width
       \/ Dist2(Dot(v, fr.orth), Dot(v, fr.along_b))
              < fr.dot_limit_width * fr.dot_limit_width

SegmentSelIn(grid, rect, fr) ==
    {p \in DOMAIN grid.at : InRect(p, rect) /\ InSegment(grid.at[p], fr)}

\* the pixels one line_segment_internal call sets to 1.0 in its local canvas
SegmentSel(grid, lat_a, lon_a, lat_b, lon_b, line_width) ==
    SegmentSelIn(grid,
                 SegmentRect(grid.shape, lat_a, lon_a, lat_b, lon_b, line_width),
                 LineFrame(latlon2vec(lat_a, lon_a), latlon2vec(lat_b, lon_b),
                           line_width))

Raised(cv) == [outcome |-> "error", canvas |-> cv, cover |-> {}]

SegmentDrawn(cv, rect, sel) ==
    IF RectFails(rect) THEN Raised(cv)
    ELSE [outcome |-> "ok", canvas |-> MaxIntoRect(cv, rect, sel), cover |-> sel]

\* line_segment_internal up to its "if transfer", on endpoints a, b (points,
\* or NaN when line() hands it the latitude/longitude of a NaN vector):
\* int(np.floor(nan)) and a negative np.zeros dimension raise ValueError
\* before anything is written
line_segment_internal(grid, cv, a, b, line_width) ==
    IF IsNaN(a) \/ IsNaN(b) THEN Raised(cv)
    ELSE SegmentDrawn(cv,
             SegmentRect(grid.shape, a[1], a[2], b[1], b[2], line_width),
             SegmentSel(grid, a[1], a[2], b[1], b[2], line_width))

\* max_step = 5  # degrees
max_step == 5

\* the division count if it were the ceiling of angle / max_step
DivisionsCeil(angle) == (angle + Deg(max_step) - 1) \div Deg(max_step)

\* divisions = int(angle / max_step + 1)
Divisions(angle) == angle \div Deg(max_step) + 1

LineLocalsOf(vec_a, cross, angle) ==
    [ vec_a |-> vec_a, along_a |-> Cross(Normalize(cross), vec_a),
      angle |-> angle, divisions |-> Divisions(angle) ]

LineAngle(vec_a, cross, cos_theta) ==
    LineLocalsOf(vec_a, cross, Atan2(Norm(cross), cos_theta))

LineVectors(vec_a, vec_b) ==
    LineAngle(vec_a, Cross(vec_a, vec_b),
              RoundDiv(Dot(vec_a, vec_b), Scale))

\* the locals line() computes before its loop
LineLocals(lat_a, lon_a, lat_b, lon_b) ==
    LineVectors(latlon2vec(lat_a, lon_a), latlon2vec(lat_b, lon_b))

Combine(u, v, c, s) ==
    << RoundDiv(u[1] * c + v[1] * s, Scale),
       RoundDiv(u[2] * c + v[2] * s, Scale),
       RoundDiv(u[3] * c + v[3] * s, Scale) >>

\* vec_a * np.cos(t) + along_a * np.sin(t)
PointAt(loc, t) ==
    IF IsNaN(loc.along_a) THEN NaN
    ELSE Combine(loc.vec_a, loc.along_a, Cos(t), Sin(t))

\* the k-th point of the chain, t = k * step with step = angle / divisions
LinePoint(loc, k) == PointAt(loc, RoundDiv(k * loc.angle, loc.divisions))

---------------------------------------------------------------------------
(* The drawing primitives as functions of the buffers.  Each gives the     *)
(* outcome ("ok", or "error" when the code raises), the mask and RGBA      *)
(* buffer before any flush, and the pixels it selected.                    *)

Marked(cv, img, sel) ==
    [outcome |-> "ok", canvas |-> MarkSelected(cv, sel), rgba |-> img,
     cover |-> sel]

disk_simple(grid, cv, img, lat, lon, diameter) ==
    Marked(cv, img, DiskSimpleSel(grid, lat, lon, diameter))

circle_simple(grid, cv, img, lat, lon, diameter, line_width) ==
    Marked(cv, img, CircleSimpleSel(grid, lat, lon, diameter, line_width))

line_simple(grid, cv, img, lat_a, lon_a, lat_b, lon_b, line_width) ==
    Marked(cv, img, LineSimpleSel(grid, lat_a, lon_a, lat_b, lon_b, line_width))

\* a disk that blends into the RGBA buffer and leaves the mask alone
DiskDrawnBypass(cv, img, rect, sel) ==
    IF RectFails(rect)
    THEN [outcome |-> "error", canvas |-> cv, rgba |-> img, cover |-> {}]
    ELSE [outcome |-> "ok", canvas |-> cv, rgba |-> Blend5050(img, rect),
          cover |-> sel]

\* disk up to its "if transfer", given its rectangle and selected pixels
DiskDrawn(cv, img, rect, sel) ==
    IF RectFails(rect)
    THEN [outcome |-> "error", canvas |-> cv, rgba |-> img, cover |-> {}]
    ELSE [outcome |-> "ok", canvas |-> MaxIntoRect(cv, rect, sel),
          rgba |-> Blend5050(img, rect), cover |-> sel]

disk(grid, cv, img, lat, lon, diameter) ==
    DiskDrawn(cv, img, DiskRect(grid.shape, lat, lon, diameter),
              DiskSel(grid, lat, lon, diameter))

\* a direct line_segment_internal call up to its "if transfer"
SegmentCall(img, res) ==
    [outcome |-> res.outcome, canvas |-> res.canvas, rgba |-> img,
     cover |-> res.cover]

---------------------------------------------------------------------------
(* The calls the model makes *)

MaxCalls == 3

White == <<255, 255, 255, 255>>

Red == <<255, 0, 0, 255>>

Blue128 == <<0, 0, 255, 128>>

Colors == {Red, Blue128}

Call(args, color, transfer) ==
    [args |-> args, color |-> color, transfer |-> transfer]

\* lat, lon, diameter
DiskSimpleCalls ==
    { Call(<<Deg(40), 0, Deg(90)>>, White, FALSE),
      Call(<<Deg(40), 0, Deg(90)>>, Red, TRUE),
      Call(<<0, 0, -Deg(60)>>, Blue128, TRUE) }

\* lat, lon, diameter, line_width
CircleSimpleCalls ==
    { Call(<<Deg(40), Deg(90), Deg(90), Deg(30)>>, White, FALSE),
      Call(<<Deg(40), Deg(90), Deg(90), Deg(30)>>, Blue128, TRUE),
      Call(<<Deg(40), Deg(90), Deg(90), 0>>, Red, TRUE) }

\* lat_a, lon_a, lat_b, lon_b, line_width
LineSimpleCalls ==
    { Call(<<0, 0, Deg(45), Deg(90), Deg(40)>>, White, FALSE),
      Call(<<0, 0, Deg(45), Deg(90), Deg(40)>>, Red, TRUE),
      Call(<<Deg(15), Deg(15), Deg(15), Deg(15), Deg(40)>>, Blue128, TRUE) }

SegmentCalls ==
    { Call(<<Deg(15), Deg(15), Deg(15), Deg(45), Deg(20)>>, White, FALSE),
      Call(<<Deg(15), Deg(15), Deg(15), Deg(45), Deg(20)>>, Blue128, TRUE),
      Call(<<Deg(15), Deg(15), Deg(15), Deg(15), Deg(20)>>, Red, TRUE),
      Call(<<Deg(200), Deg(15), Deg(200), Deg(45), Deg(20)>>, Red, TRUE) }

LineCalls ==
    { Call(<<Deg(15), Deg(15), Deg(15), Deg(45), Deg(20)>>, White, FALSE),
      Call(<<Deg(15), Deg(15), Deg(15), Deg(45), Deg(20)>>, Red, TRUE),
      Call(<<0, 0, 0, Deg(10), Deg(40)>>, Blue128, TRUE),
      Call(<<Deg(15), Deg(15), Deg(15), Deg(15), Deg(20)>>, Red, TRUE) }

\* lat, lon, diameter
DiskCalls ==
    { Call(<<Deg(15), Deg(15), Deg(40)>>, White, FALSE),
      Call(<<Deg(15), Deg(15), Deg(40)>>, Red, TRUE),
      Call(<<Deg(15), Deg(15), Deg(40)>>, Blue128, TRUE),
      Call(<<Deg(15), Deg(400), Deg(40)>>, Red, TRUE) }

NoCall ==
    [op |-> "none", args |-> <<>>, color |-> White, transfer |-> FALSE,
     outcome |-> "ok", flushed |-> FALSE]

NoLine ==
    [loc |-> [vec_a |-> NaN, along_a |-> NaN, angle |-> 0, divisions |-> 0],
     d |-> 0, line_width |-> 0, seg |-> <<>>]

\* count after an accumulate that selected the pixels sel
Counted(cnt, sel) == [p \in DOMAIN cnt |-> cnt[p] + IF p \in sel THEN 1 ELSE 0]

Init ==
    /\ xyz = DirectionTable(Height)
    /\ canvas = ZeroMask(Height)
    /\ rgba = BlankRgba(Height)
    /\ pc = "idle"
    /\ ln = NoLine
    /\ last = NoCall
    /\ prev = [canvas |-> ZeroMask(Height), rgba |-> BlankRgba(Height)]
    /\ cover = {}
    /\ count = ZeroMask(Height)
    /\ calls = 0
    /\ probe = <<>>

\* the buffers after "if transfer: self.transfer_canvas_to_rgba(color=color)"
Flushed(flush, cv, img, color) ==
    IF flush THEN transfer_canvas_to_rgba(cv, img, color)
    ELSE [canvas |-> cv, rgba |-> img]

Returned(op, c, res, flush, out) ==
    /\ canvas' = out.canvas
    /\ rgba' = out.rgba
    /\ last' = [op |-> op, args |-> c.args, color |-> c.color,
                transfer |-> c.transfer, outcome |-> res.outcome,
                flushed |-> flush]
    /\ prev' = [canvas |-> canvas, rgba |-> rgba]
    /\ cover' = res.cover
    /\ count' = IF flush THEN ClearMask(count) ELSE Counted(count, res.cover)
    /\ calls' = calls + 1
    /\ UNCHANGED <<xyz, pc, ln, probe>>

Flushing(op, c, res, flush) ==
    Returned(op, c, res, flush, Flushed(flush, res.canvas, res.rgba, c.color))

\* the end of a call if the flush ran even after the call raised
FinishAlways(op, c, res) == Flushing(op, c, res, c.transfer)

\* the end of a call that drew res: it flushes unless it raised
Finish(op, c, res) == Flushing(op, c, res, res.outcome = "ok" /\ c.transfer)

Ready == pc = "idle" /\ calls < MaxCalls

Transfer(color) ==
    /\ Ready
    /\ Finish("transfer_canvas_to_rgba", Call(<<>>, color, TRUE),
              [outcome |-> "ok", canvas |-> canvas, rgba |-> rgba,
               cover |-> {}])

DiskSimple(c) ==
    /\ Ready
    /\ Finish("disk_simple", c,
              disk_simple(xyz, canvas, rgba, c.args[1], c.args[2], c.args[3]))

CircleSimple(c) ==
    /\ Ready
    /\ Finish("circle_simple", c,
              circle_simple(xyz, canvas, rgba, c.args[1], c.args[2],
                            c.args[3], c.args[4]))

LineSimple(c) ==
    /\ Ready
    /\ Finish("line_simple", c,
              line_simple(xyz, canvas, rgba, c.args[1], c.args[2],
                          c.args[3], c.args[4], c.args[5]))

LineSegmentInternal(c) ==
    /\ Ready
    /\ Finish("line_segment_internal", c,
              SegmentCall(rgba,
                  line_segment_internal(xyz, canvas, <<c.args[1], c.args[2]>>,
                                        <<c.args[3], c.args[4]>>, c.args[5])))

Disk(c) ==
    /\ Ready
    /\ Finish("disk", c,
              disk(xyz, canvas, rgba, c.args[1], c.args[2], c.args[3]))

\* line() up to its loop
LineBegin(c) ==
    /\ Ready
    /\ pc' = "line"
    /\ ln' = [loc |-> LineLocals(c.args[1], c.args[2], c.args[3], c.args[4]),
              d |-> 0, line_width |-> c.args[5], seg |-> <<>>]
    /\ last' = [op |-> "line", args |-> c.args, color |-> c.color,
                transfer |-> c.transfer, outcome |-> "running",
                flushed |-> FALSE]
    /\ prev' = [canvas |-> canvas, rgba |-> rgba]
    /\ cover' = {}
    /\ calls' = calls + 1
    /\ UNCHANGED <<xyz, canvas, rgba, count, probe>>

\* the flag if line() handed its own transfer flag on to each sub-segment
SegmentTransferOwn == last.transfer

\* the transfer flag line() passes to line_segment_internal
SegmentTransfer == FALSE

SegmentReturned(a, b, res, flush, out) ==
    /\ canvas' = out.canvas
    /\ rgba' = out.rgba
    /\ cover' = cover \cup res.cover
    /\ count' = IF flush THEN ClearMask(count) ELSE Counted(count, res.cover)
    /\ ln' = [ln EXCEPT !.d = IF res.outcome = "ok" THEN ln.d + 1 ELSE ln.d,
                        !.seg = <<a, b>>]
    /\ pc' = IF res.outcome = "ok" THEN "line" ELSE "idle"
    /\ last' = IF res.outcome = "ok"
               THEN [last EXCEPT !.flushed = last.flushed \/ flush]
               ELSE [last EXCEPT !.outcome = "error"]
    /\ UNCHANGED <<xyz, prev, calls, probe>>

SegmentFlushing(a, b, res, flush) ==
    SegmentReturned(a, b, res, flush,
                    Flushed(flush, res.canvas, rgba, last.color))

SegmentStep(a, b) ==
    SegmentFlushing(a, b,
                    line_segment_internal(xyz, canvas, a, b, ln.line_width),
                    SegmentTransfer)

\* one pass of the loop of line(): sub-segment d goes through
\* line_segment_internal; a ValueError there ends the call
LineSegment ==
    /\ pc = "line"
    /\ ln.d < ln.loc.divisions
    /\ SegmentStep(vec2latlon(LinePoint(ln.loc, ln.d)),
                   vec2latlon(LinePoint(ln.loc, ln.d + 1)))

LineReturned(out) ==
    /\ canvas' = out.canvas
    /\ rgba' = out.rgba
    /\ count' = IF last.transfer THEN ClearMask(count) ELSE count
    /\ last' = [last EXCEPT !.outcome = "ok",
                            !.flushed = last.flushed \/ last.transfer]
    /\ pc' = "idle"
    /\ UNCHANGED <<xyz, ln, prev, cover, calls, probe>>

\* line() after its loop: "if transfer: self.transfer_canvas_to_rgba(...)"
LineEnd ==
    /\ pc = "line"
    /\ ln.d = ln.loc.divisions
    /\ LineReturned(Flushed(last.transfer, canvas, rgba, last.color))

Next ==
    \/ \E color \in Colors : Transfer(color)
    \/ \E c \in DiskSimpleCalls : DiskSimple(c)
    \/ \E c \in CircleSimpleCalls : CircleSimple(c)
    \/ \E c \in LineSimpleCalls : LineSimple(c)
    \/ \E c \in SegmentCalls : LineSegmentInternal(c)
    \/ \E c \in LineCalls : LineBegin(c)
    \/ LineSegment
    \/ LineEnd
    \/ \E c \in DiskCalls : Disk(c)

Spec == Init /\ [][Next]_vars


---------------------------------------------------------------------------
(* The compositor alone: one flush of a uniform mask, for every colour    *)
(* alpha over every existing alpha.  The colour and the buffer are black, *)
(* so that the three colour channels are 0 in doubles as well.            *)

BlendHeight == 1

Bytes == 0 .. MaxByte

InitBlend ==
    /\ xyz = DirectionTable(BlendHeight)
    /\ \E m \in {0, 1} : canvas = [p \in Pix(BlendHeight) |-> m]
    /\ \E a \in Bytes : rgba = [p \in Pix(BlendHeight) |-> <<0, 0, 0, a>>]
    /\ \E ca \in Bytes : probe = <<0, 0, 0, ca>>
    /\ pc = "idle"
    /\ ln = NoLine
    /\ last = NoCall
    /\ prev = [canvas |-> canvas, rgba |-> rgba]
    /\ cover = {}
    /\ count = canvas
    /\ calls = 0

NextBlend == calls = 0 /\ Transfer(probe)

SpecBlend == InitBlend /\ [][NextBlend]_vars

---------------------------------------------------------------------------
(* disk_simple and disk side by side: the same disk drawn with            *)
(* transfer=False on two blank canvases of one height; canvas is the mask *)
(* of the first, probe.canvas the mask of the second.                     *)

DiskHeight == 60

DiskLats == {0, Deg(20), Deg(40), Deg(45), Deg(50), -Deg(50)}

DiskLons == {-Deg(60), 0, Deg(30)}

DiskDiameters ==
    {Deg(10), Deg(16), Deg(24), Deg(30), Deg(36), Deg(44), Deg(65), Deg(72)}

\* centres and diameters whose disk stays 5 degrees clear of both poles;
\* its longitudes stay within 90 degrees of the centre, clear of +-180
DiskProbes ==
    {t \in DiskLats \X DiskLons \X DiskDiameters :
        Abs(t[1]) + Half(t[3]) <= Deg(85)}

InitDisk ==
    /\ xyz = DirectionTable(DiskHeight)
    /\ canvas = ZeroMask(DiskHeight)
    /\ rgba = BlankRgba(DiskHeight)
    /\ \E t \in DiskProbes :
          probe = [args |-> t, canvas |-> ZeroMask(DiskHeight),
                   rgba |-> BlankRgba(DiskHeight)]
    /\ pc = "disk_simple"
    /\ ln = NoLine
    /\ last = NoCall
    /\ prev = [canvas |-> canvas, rgba |-> rgba]
    /\ cover = {}
    /\ count = canvas
    /\ calls = 0

ProbeReturned(res) ==
    /\ canvas' = res.canvas
    /\ rgba' = res.rgba
    /\ cover' = res.cover
    /\ pc' = "disk"
    /\ UNCHANGED <<xyz, ln, last, prev, count, calls, probe>>

\* first canvas: disk_simple(lat, lon, diameter, transfer=False)
ProbeDiskSimple ==
    /\ pc = "disk_simple"
    /\ ProbeReturned(disk_simple(xyz, canvas, rgba, probe.args[1],
                                 probe.args[2], probe.args[3]))

ProbedDisk(res) ==
    /\ probe' = [probe EXCEPT !.canvas = res.canvas, !.rgba = res.rgba]
    /\ pc' = "compared"
    /\ UNCHANGED <<xyz, canvas, rgba, ln, last, prev, cover, count, calls>>

\* second canvas: disk(lat, lon, diameter, transfer=False)
ProbeDisk ==
    /\ pc = "disk"
    /\ ProbedDisk(disk(xyz, probe.canvas, probe.rgba, probe.args[1],
                       probe.args[2], probe.args[3]))

NextDisk == ProbeDiskSimple \/ ProbeDisk

SpecDisk == InitDisk /\ [][NextDisk]_vars

---------------------------------------------------------------------------
(* Properties *)

Transparent == <<0, 0, 0, 0>>

\* C1: a flush while the mask is all zero leaves every channel of every
\* pixel of the RGBA buffer as it was, whatever the buffer holds and
\* whatever the colour
C1_NoOpFlush ==
    (last.op = "transfer_canvas_to_rgba" /\ MaskIsZero(prev.canvas))
        => rgba = prev.rgba

\* a flush of an all-zero mask over a buffer that holds drawn pixels, some
\* of them partly transparent
C1_NoOpFlushReached ==
    /\ last.op = "transfer_canvas_to_rgba"
    /\ MaskIsZero(prev.canvas)
    /\ \E p \in DOMAIN rgba : prev.rgba[p][4] \notin {0, MaxByte}
    /\ \E p \in DOMAIN rgba : prev.rgba[p][4] = MaxByte

\* C2: one opaque primitive drawn and flushed on a blank canvas leaves the
\* covered pixels at the draw colour and every other pixel at (0,0,0,0),
\* for every primitive
C2_OpaqueDrawOnBlank ==
    ( /\ calls = 1 /\ pc = "idle"
      /\ last.op \notin {"none", "transfer_canvas_to_rgba"}
      /\ last.outcome = "ok" /\ last.flushed /\ last.color[4] = MaxByte )
        => \A p \in DOMAIN rgba :
              rgba[p] = IF p \in cover THEN last.color ELSE Transparent

\* C3: after every flush, direct or at the end of a draw call with
\* transfer=True, every mask value is 0
C3_MaskClearedByFlush == last.flushed => MaskIsZero(canvas)

\* a draw call with transfer=True that flushed coverage of its own on top
\* of coverage left by an earlier deferred draw
C3_FlushOfAccumulatedReached ==
    /\ last.flushed
    /\ last.op \notin {"none", "transfer_canvas_to_rgba"}
    /\ cover /= {}
    /\ ~MaskIsZero(prev.canvas)

\* C4: mask values are 0 or 1, a pixel holds 1 exactly when at least one
\* primitive since the last flush covered it (however many did), and a
\* deferred draw leaves the pointwise maximum of the old mask and its own
\* coverage, so no value is lowered
C4_MaskIsMaximum ==
    /\ \A p \in DOMAIN canvas :
          /\ canvas[p] \in {0, 1}
          /\ canvas[p] = IF count[p] > 0 THEN 1 ELSE 0
    /\ (last.op /= "none" /\ ~last.flushed)
          => \A p \in DOMAIN canvas :
                /\ canvas[p] >= prev.canvas[p]
                /\ canvas[p]
                     = Max2(prev.canvas[p], IF p \in cover THEN 1 ELSE 0)

\* after two deferred draws, the second through a bounded primitive: one
\* pixel covered twice and one covered once hold the same mask value
C4_OverlapReached ==
    /\ calls >= 2 /\ pc = "idle" /\ ~last.flushed
    /\ last.op \in {"disk", "line_segment_internal", "line"}
    /\ \E p \in cover : prev.canvas[p] = 1 /\ count[p] >= 2
    /\ \E q \in DOMAIN canvas : count[q] = 1 /\ canvas[q] = 1

\* the exact value of combinedA * 255, times 255, for mask m, colour alpha
\* ca and existing alpha a
OverTimes255(m, ca, a) == m * ca * 255 + (255 - m * ca) * a

\* C5: the alpha byte a flush stores is combinedA * 255 truncated, never
\* rounded up: it is the floor of the exact value, or one less than the
\* exact value where that is an integer the double product falls short of;
\* where combinedA is 0 the pixel is (0,0,0,0)
C5_AlphaTruncated ==
    last.op = "transfer_canvas_to_rgba"
        => \A p \in DOMAIN rgba :
              /\ rgba[p][4] * 255
                    <= OverTimes255(prev.canvas[p], last.color[4],
                                    prev.rgba[p][4])
              /\ OverTimes255(prev.canvas[p], last.color[4], prev.rgba[p][4])
                    <= (rgba[p][4] + 1) * 255
              /\ OverTimes255(prev.canvas[p], last.color[4],
                              prev.rgba[p][4]) = 0
                    => rgba[p] = Transparent

\* a flush of mask 1 where combinedA * 255 has a fraction of a half or more
\* and the stored alpha is its floor
C5_TruncationReached ==
    /\ last.op = "transfer_canvas_to_rgba"
    /\ \E p \in DOMAIN rgba :
          /\ prev.canvas[p] = 1
          /\ OverTimes255(1, last.color[4], prev.rgba[p][4]) % 255 >= 128
          /\ rgba[p][4]
                = OverTimes255(1, last.color[4], prev.rgba[p][4]) \div 255

\* C5 as stated: the stored alpha byte is combinedA * 255 rounded to nearest
C5_AlphaRounded ==
    last.op = "transfer_canvas_to_rgba"
        => \A p \in DOMAIN rgba :
              rgba[p][4]
                = (2 * OverTimes255(prev.canvas[p], last.color[4],
                                    prev.rgba[p][4]) + 255) \div (2 * 255)

\* C6: for a centre away from the poles and the anti-meridian, disk marks
\* in the mask exactly the pixels disk_simple marks
C6_DiskSelectsAsDiskSimple == pc = "compared" => probe.canvas = canvas

\* the angle between two points given by latitude and longitude
Separation(a, b) ==
    Atan2(Norm(Cross(latlon2vec(a[1], a[2]), latlon2vec(b[1], b[2]))),
          RoundDiv(Dot(latlon2vec(a[1], a[2]), latlon2vec(b[1], b[2])),
                   Scale))

\* two points agree to 0.02 degrees in latitude and in longitude
Near(a, b) == Abs(a[1] - b[1]) <= 2 /\ Abs(a[2] - b[2]) <= 2

\* C7: line() cuts an arc of computed angle theta in (0,180) into
\* floor(theta / 5) + 1 equal sub-segments, which is one more than
\* ceil(theta / 5) when theta is a multiple of 5; each sub-segment handed to
\* line_segment_internal spans at most 5 degrees, the first starts at A and
\* the last ends at B
C7_DivisionsFloorPlusOne ==
    (last.op = "line" /\ ln.loc.angle > 0)
        => /\ ln.loc.divisions = ln.loc.angle \div Deg(max_step) + 1
           /\ ln.loc.divisions >= 1
           /\ ln.loc.angle < ln.loc.divisions * Deg(max_step)
           /\ ln.d <= ln.loc.divisions
           /\ ln.d >= 1
                => /\ Separation(ln.seg[1], ln.seg[2]) <= Deg(max_step)
                   /\ ln.d = 1
                        => Near(ln.seg[1], <<last.args[1], last.args[2]>>)
                   /\ ln.d = ln.loc.divisions
                        => Near(ln.seg[2], <<last.args[3], last.args[4]>>)

\* a finished line over exactly 10 degrees, drawn in 3 sub-segments
C7_MultipleOfFiveReached ==
    /\ last.op = "line" /\ pc = "idle" /\ last.outcome = "ok"
    /\ ln.loc.angle = Deg(10)
    /\ ln.loc.divisions = 3
    /\ ln.d = 3

\* C7 as stated: the number of sub-segments is ceil(theta / 5)
C7_DivisionsCeiling ==
    (last.op = "line" /\ ln.loc.angle > 0)
        => ln.loc.divisions
             = (ln.loc.angle + Deg(max_step) - 1) \div Deg(max_step)

\* a zero or negative diameter or line width, or coincident line endpoints
InvalidGeometry(op, args) ==
    \/ op \in {"disk_simple", "disk"} /\ args[3] <= 0
    \/ op = "circle_simple" /\ (args[3] <= 0 \/ args[4] <= 0)
    \/ /\ op \in {"line_simple", "line_segment_internal", "line"}
       /\ \/ args[5] <= 0
          \/ args[1] = args[3] /\ args[2] = args[4]

\* C8: a draw call with a zero or negative diameter or width, or with a
\* degenerate line, ends in an error and does not return normally
C8_InvalidRejected ==
    (pc = "idle" /\ last.op \notin {"none", "transfer_canvas_to_rgba"}
                 /\ InvalidGeometry(last.op, last.args))
        => last.outcome = "error"

HalfWay(px) == <<(px[1] + 255) \div 2, px[2], px[3], (px[4] + 255) \div 2>>

\* the buffer img after the 50/50 blend over the rectangle of disk(args)
DiskBlended(img, args) ==
    [p \in DOMAIN img |->
        IF InRect(p, DiskRect(xyz.shape, args[1], args[2], args[3]))
        THEN HalfWay(img[p]) ELSE img[p]]

\* C10: disk blends red and alpha 50/50 with 255 over its whole rectangle,
\* and also takes the standard path: it adds its coverage to the mask by
\* maximum and, with transfer=True, flushes the mask over the blended
\* buffer; only with transfer=False is the RGBA change the blend alone
C10_DiskBlendsThenComposites ==
    (last.op = "disk" /\ last.outcome = "ok")
        => /\ last.flushed = last.transfer
           /\ ~last.transfer
                => /\ rgba = DiskBlended(prev.rgba, last.args)
                   /\ \A p \in DOMAIN canvas :
                         canvas[p] = Max2(prev.canvas[p],
                                          IF p \in cover THEN 1 ELSE 0)
           /\ last.transfer
                => /\ MaskIsZero(canvas)
                   /\ \A p \in DOMAIN rgba :
                         rgba[p] =
                           IF prev.canvas[p] = 0 /\ p \notin cover
                           THEN DiskBlended(prev.rgba, last.args)[p]
                           ELSE IF last.color[4] = 255 THEN last.color
                           ELSE TransferPixel(1, last.color,
                                   DiskBlended(prev.rgba, last.args)[p])

\* a disk with transfer=True and a half-transparent colour, drawn over
\* coverage an earlier deferred draw left in the mask
C10_DiskFlushReached ==
    /\ last.op = "disk" /\ last.outcome = "ok" /\ last.flushed
    /\ last.color[4] = 128
    /\ cover /= {}
    /\ \E p \in DOMAIN canvas : prev.canvas[p] = 1 /\ p \notin cover

\* C10 as stated: disk adds no coverage to the mask and does not flush, so
\* the RGBA buffer changes by the 50/50 blend alone
C10_DiskBypassesCompositor ==
    (last.op = "disk" /\ last.outcome = "ok")
        => /\ canvas = prev.canvas
           /\ ~last.flushed
           /\ rgba = DiskBlended(prev.rgba, last.args)

\* C11: while a line() call runs its loop the RGBA buffer is the buffer the
\* call began with and nothing has been flushed; once it has returned, it
\* has flushed exactly when transfer is true: once, the whole accumulated
\* mask over the buffer the call began with, and with transfer false the
\* RGBA buffer is unchanged by the whole call
C11_LineFlushesOnceAtEnd ==
    last.op = "line"
        => /\ pc = "line" => rgba = prev.rgba /\ ~last.flushed
           /\ (pc = "idle" /\ last.outcome = "ok")
                => /\ last.flushed = last.transfer
                   /\ ~last.transfer => rgba = prev.rgba
                   /\ last.transfer
                        => /\ MaskIsZero(canvas)
                           /\ \A p \in DOMAIN rgba :
                                 rgba[p] =
                                   TransferPixel(
                                       Max2(prev.canvas[p],
                                            IF p \in cover THEN 1 ELSE 0),
                                       last.color, prev.rgba[p])

\* a line() call with transfer=True and a half-transparent colour, in its
\* loop with at least two sub-segments accumulated over a drawn buffer
C11_MidLineReached ==
    /\ last.op = "line" /\ pc = "line" /\ last.transfer
    /\ last.color[4] = 128
    /\ ln.d >= 2 /\ ln.d < ln.loc.divisions
    /\ cover /= {}
    /\ \E p \in DOMAIN rgba : prev.rgba[p] /= Transparent
====
